---------------------------- MODULE Spec2Model ----------------------------
(***************************************************************************)
(* The analytics collector: the in-memory event log `db` of server.py, the *)
(* HTTP handlers that append to it, clear it and query it, and the four    *)
(* aggregation functions of aggregate.py the queries call.                 *)
(*                                                                         *)
(* Data representation.  A JSON object (Python dict) is a TLA+ function    *)
(* whose DOMAIN is exactly the set of keys present, so dict.get(k, d) is   *)
(* Get(d, k, dflt).  Strings that the code only compares (type, sessionId, *)
(* choiceText) are TLA+ strings.  Strings that the code builds, splits or  *)
(* searches (knot names, choice identifiers, rendered index keys) are      *)
(* sequences of one-character strings, so "a:b" is <<"a", ":", "b">>.      *)
(* A dict whose iteration order reaches the output (sessions, path_counts) *)
(* is a sequence in insertion order; the others are functions.             *)
(***************************************************************************)
EXTENDS Integers, Sequences, FiniteSets, TLC

VARIABLES
    db,        \* server.py:24, the event log
    request,   \* the request the handler has just served
    status,    \* the HTTP status of the response to it
    response,  \* the JSON body of the response (EmptyDict for a status-only one)
    cleared    \* history: DELETE /events has run and nothing was appended since

vars == <<db, request, status, response, cleared>>

-----------------------------------------------------------------------------
(* Python values *)

EmptyDict == [k \in {} |-> k]

Get(d, k, dflt) == IF k \in DOMAIN d THEN d[k] ELSE dflt

Put(d, k, v) == [x \in DOMAIN d \cup {k} |-> IF x = k THEN v ELSE d[x]]

Min(a, b) == IF a <= b THEN a ELSE b

Max(a, b) == IF a >= b THEN a ELSE b

Digits == <<"0", "1", "2", "3", "4", "5", "6", "7", "8", "9">>

RECURSIVE NatStr(_)
NatStr(n) ==
    IF n < 10 THEN <<Digits[n + 1]>>
    ELSE NatStr(n \div 10) \o <<Digits[(n % 10) + 1]>>

\* str(idx) and the {idx} of an f-string, for an integer
str(i) == IF i < 0 THEN <<"-">> \o NatStr(-i) ELSE NatStr(i)

\* ":" in s
has_colon(s) == \E i \in 1..Len(s) : s[i] = ":"

\* s.split(":")[0]
split_head(s) ==
    IF has_colon(s)
    THEN LET i == CHOOSE i \in 1..Len(s) :
                      s[i] = ":" /\ \A j \in 1..(i - 1) : s[j] # ":"
         IN SubSeq(s, 1, i - 1)
    ELSE s

\* seq[:limit]
slice_to(seq, limit) ==
    IF limit >= 0 THEN SubSeq(seq, 1, Min(limit, Len(seq)))
    ELSE SubSeq(seq, 1, Max(Len(seq) + limit, 0))

\* seq[-limit:]  (seq[-0:] is the whole list)
slice_last(seq, limit) ==
    IF limit > 0 THEN SubSeq(seq, Max(Len(seq) - limit, 0) + 1, Len(seq))
    ELSE SubSeq(seq, Min(-limit, Len(seq)) + 1, Len(seq))

\* round(count / total * 100): Python rounds a tie to the even neighbour.
\* The code divides in floating point; a tie needs a total that is a
\* multiple of 8, and below that the float and the exact quotient round alike.
round_pct(count, total) ==
    LET q == (100 * count) \div total
        r == (100 * count) % total
    IN IF 2 * r < total THEN q
       ELSE IF 2 * r > total THEN q + 1
       ELSE IF q % 2 = 0 THEN q ELSE q + 1

Unknown == <<"u", "n", "k", "n", "o", "w", "n">>

\* e.get("type") == "choice"
is_choice(e) == "type" \in DOMAIN e /\ e["type"] = "choice"

\* [e for e in entries if e.get("type") == "choice"]
choices_of(entries) == SelectSeq(entries, is_choice)

\* c.get("payload") or {}
payload_of(c) == Get(c, "payload", EmptyDict)

\* c.get("context") or {}
context_of(c) == Get(c, "context", EmptyDict)

-----------------------------------------------------------------------------
(* aggregate.py: compute_path_stats *)

\* lines 19-36: by_path and sessions after the first n iterations of the loop
RECURSIVE path_loop(_, _)
\* as path_loop, but every entry of a pair overwrites the cell's text
path_loop_last_text(choices, n) ==
    IF n = 0 THEN [by_path |-> EmptyDict, sessions |-> {}]
    ELSE LET prev == path_loop(choices, n - 1)
             c == choices[n]
             payload == payload_of(c)
             path == Get(payload, "knotPath", Unknown)
             choice_index == Get(payload, "choiceIndex", -1)
             with_path == IF path \in DOMAIN prev.by_path
                          THEN prev.by_path
                          ELSE Put(prev.by_path, path, EmptyDict)
             count == IF choice_index \in DOMAIN with_path[path]
                      THEN with_path[path][choice_index].count
                      ELSE 0
         IN [by_path |-> Put(with_path, path,
                             Put(with_path[path], choice_index,
                                 [count |-> count + 1,
                                  text |-> Get(payload, "choiceText", "")])),
             sessions |-> prev.sessions \cup {Get(c, "sessionId", "")}]

path_loop(choices, n) ==
    IF n = 0 THEN [by_path |-> EmptyDict, sessions |-> {}]
    ELSE LET prev == path_loop(choices, n - 1)
             c == choices[n]
             payload == payload_of(c)
             path == Get(payload, "knotPath", Unknown)
             choice_index == Get(payload, "choiceIndex", -1)
             with_path == IF path \in DOMAIN prev.by_path
                          THEN prev.by_path
                          ELSE Put(prev.by_path, path, EmptyDict)
             cell == IF choice_index \in DOMAIN with_path[path]
                     THEN with_path[path][choice_index]
                     ELSE [count |-> 0, text |-> Get(payload, "choiceText", "")]
         IN [by_path |-> Put(with_path, path,
                             Put(with_path[path], choice_index,
                                 [cell EXCEPT !.count = @ + 1])),
             sessions |-> prev.sessions \cup {Get(c, "sessionId", "")}]

\* line 40: {str(idx): data for idx, data in choices_map.items()}
str_keys(choices_map) ==
    [s \in {str(idx) : idx \in DOMAIN choices_map} |->
        choices_map[CHOOSE idx \in DOMAIN choices_map : str(idx) = s]]

\* as compute_path_stats, but totalChoices counts every entry
compute_path_stats_counts_all(entries) ==
    LET choices == choices_of(entries)
        done == path_loop(choices, Len(choices))
    IN [totalChoices |-> Len(entries),
        uniqueSessions |-> Cardinality(done.sessions),
        pathDistribution |->
            [path \in DOMAIN done.by_path |-> str_keys(done.by_path[path])]]

compute_path_stats(entries) ==
    LET choices == choices_of(entries)
        done == path_loop(choices, Len(choices))
    IN [totalChoices |-> Len(choices),
        uniqueSessions |-> Cardinality(done.sessions),
        pathDistribution |->
            [path \in DOMAIN done.by_path |-> str_keys(done.by_path[path])]]

-----------------------------------------------------------------------------
(* aggregate.py: compute_session_summaries *)

\* lines 61-85: the sessions dict, in insertion order, after n entries
RECURSIVE sessions_loop(_, _)
\* as sessions_loop, but only choice entries move startTime and endTime
sessions_loop_choice_times(entries, n) ==
    IF n = 0 THEN <<>>
    ELSE LET prev == sessions_loop(entries, n - 1)
             entry == entries[n]
             sid == Get(entry, "sessionId", "")
             timestamp == Get(entry, "timestamp", 0)
             known == \E i \in 1..Len(prev) : prev[i].sessionId = sid
             sessions == IF known THEN prev
                         ELSE Append(prev, [sessionId |-> sid,
                                            startTime |-> timestamp,
                                            endTime |-> timestamp,
                                            choiceCount |-> 0,
                                            paths |-> {}])
             at == CHOOSE i \in 1..Len(sessions) : sessions[i].sessionId = sid
             payload == payload_of(entry)
             truthy_path == "knotPath" \in DOMAIN payload
                            /\ payload["knotPath"] # <<>>
             s == IF is_choice(entry)
                  THEN [sessions[at] EXCEPT
                          !.startTime = Min(@, timestamp),
                          !.endTime = Max(@, timestamp),
                          !.choiceCount = @ + 1,
                          !.paths = IF truthy_path
                                    THEN @ \cup {payload["knotPath"]} ELSE @]
                  ELSE sessions[at]
         IN [sessions EXCEPT ![at] = s]

sessions_loop(entries, n) ==
    IF n = 0 THEN <<>>
    ELSE LET prev == sessions_loop(entries, n - 1)
             entry == entries[n]
             sid == Get(entry, "sessionId", "")
             timestamp == Get(entry, "timestamp", 0)
             known == \E i \in 1..Len(prev) : prev[i].sessionId = sid
             sessions == IF known THEN prev
                         ELSE Append(prev, [sessionId |-> sid,
                                            startTime |-> timestamp,
                                            endTime |-> timestamp,
                                            choiceCount |-> 0,
                                            paths |-> {}])
             at == CHOOSE i \in 1..Len(sessions) : sessions[i].sessionId = sid
             timed == [sessions[at] EXCEPT !.startTime = Min(@, timestamp),
                                           !.endTime = Max(@, timestamp)]
             payload == payload_of(entry)
             truthy_path == "knotPath" \in DOMAIN payload
                            /\ payload["knotPath"] # <<>>
             s == IF is_choice(entry)
                  THEN [timed EXCEPT
                          !.choiceCount = @ + 1,
                          !.paths = IF truthy_path
                                    THEN @ \cup {payload["knotPath"]} ELSE @]
                  ELSE timed
         IN [sessions EXCEPT ![at] = s]

\* lines 87-97; list(s["paths"]) has no defined order and stays a set
compute_session_summaries(entries) ==
    LET sessions == sessions_loop(entries, Len(entries))
    IN [i \in 1..Len(sessions) |->
           [sessionId |-> sessions[i].sessionId,
            startTime |-> sessions[i].startTime,
            endTime |-> sessions[i].endTime,
            choiceCount |-> sessions[i].choiceCount,
            paths |-> sessions[i].paths,
            durationMs |-> sessions[i].endTime - sessions[i].startTime]]

-----------------------------------------------------------------------------
(* aggregate.py: top_paths *)

\* lines 112-117: path_counts, in insertion order, after n choices
RECURSIVE path_counts_loop(_, _)
path_counts_loop(choices, n) ==
    IF n = 0 THEN <<>>
    ELSE LET prev == path_counts_loop(choices, n - 1)
             path == Get(payload_of(choices[n]), "knotPath", Unknown)
         IN IF \E i \in 1..Len(prev) : prev[i].path = path
            THEN [i \in 1..Len(prev) |->
                     IF prev[i].path = path
                     THEN [prev[i] EXCEPT !.count = @ + 1] ELSE prev[i]]
            ELSE Append(prev, [path |-> path, count |-> 1])

\* line 119: sorted(items, key=count, reverse=True), a stable sort: each item
\* goes behind every item of the result whose count is not smaller
RECURSIVE sorted_by_count(_, _)
sorted_by_count(items, n) ==
    IF n = 0 THEN <<>>
    ELSE LET prev == sorted_by_count(items, n - 1)
             x == items[n]
             k == Cardinality({i \in 1..Len(prev) : prev[i].count >= x.count})
         IN SubSeq(prev, 1, k) \o <<x>> \o SubSeq(prev, k + 1, Len(prev))

\* as top_paths, but sorting ascending and reversing, which turns ties round
top_paths_ties_reversed(entries, limit) ==
    LET choices == choices_of(entries)
        path_counts == path_counts_loop(choices, Len(choices))
        backwards == [i \in 1..Len(path_counts) |->
                         path_counts[Len(path_counts) + 1 - i]]
        sorted_paths == sorted_by_count(backwards, Len(backwards))
    IN slice_to(sorted_paths, limit)

top_paths(entries, limit) ==
    LET choices == choices_of(entries)
        path_counts == path_counts_loop(choices, Len(choices))
        sorted_paths == sorted_by_count(path_counts, Len(path_counts))
    IN slice_to(sorted_paths, limit)

-----------------------------------------------------------------------------
(* aggregate.py: compute_choice_stats *)

\* line 148: payload.get("knotPath") or context.get("knot") or "unknown"
knot_of(c) ==
    LET payload == payload_of(c)
        context == context_of(c)
    IN IF "knotPath" \in DOMAIN payload /\ payload["knotPath"] # <<>>
       THEN payload["knotPath"]
       ELSE IF "knot" \in DOMAIN context /\ context["knot"] # <<>>
       THEN context["knot"]
       ELSE Unknown

\* lines 149-150: f"{knot}:{idx}"
key_of(c) ==
    knot_of(c) \o <<":">> \o str(Get(payload_of(c), "choiceIndex", -1))

\* lines 142-158: knot_totals and choice_counts after n choices
RECURSIVE choice_loop(_, _)
choice_loop(choices, n) ==
    IF n = 0 THEN [knot_totals |-> EmptyDict, choice_counts |-> EmptyDict]
    ELSE LET prev == choice_loop(choices, n - 1)
             knot == knot_of(choices[n])
             key == key_of(choices[n])
             data == Get(prev.choice_counts, key, [count |-> 0, knot |-> knot])
         IN [knot_totals |->
                Put(prev.knot_totals, knot, Get(prev.knot_totals, knot, 0) + 1),
             choice_counts |->
                Put(prev.choice_counts, key, [data EXCEPT !.count = @ + 1])]

\* as choice_result, but an identifier that was not observed is answered
\* with the total of its knot
choice_result_by_knot(done, choice_id) ==
    LET knot == split_head(choice_id)
    IN IF choice_id \in DOMAIN done.choice_counts
       THEN LET data == done.choice_counts[choice_id]
                total == Get(done.knot_totals, knot, 1)
            IN [total |-> data.count,
                percentage |-> round_pct(data.count, total)]
       ELSE IF knot \in DOMAIN done.knot_totals
       THEN [total |-> done.knot_totals[knot], percentage |-> 100]
       ELSE [total |-> 0, percentage |-> 0]

\* lines 163-173: the result for one requested choice_id
choice_result(done, choice_id) ==
    LET knot == split_head(choice_id)
    IN IF choice_id \in DOMAIN done.choice_counts
       THEN LET data == done.choice_counts[choice_id]
                total == Get(done.knot_totals, knot, 1)
            IN [total |-> data.count,
                percentage |-> round_pct(data.count, total)]
       ELSE [total |-> 0, percentage |-> 0]

\* choice_ids is the requested list; the result dict has one key per distinct id
compute_choice_stats(entries, choice_ids) ==
    LET choices == choices_of(entries)
        done == choice_loop(choices, Len(choices))
    IN [choices |->
           [choice_id \in {choice_ids[i] : i \in 1..Len(choice_ids)} |->
               choice_result(done, choice_id)]]

-----------------------------------------------------------------------------
(* Inputs: the events clients send and the parameters of their queries *)

MaxLog == 3

MaxLimit == 2

KnotK == <<"k">>

KnotColon == <<"a", ":", "b">>

KnotA == <<"a">>

Events ==
    { [type |-> "choice", sessionId |-> "s1", timestamp |-> 100,
       payload |-> [knotPath |-> KnotK, choiceIndex |-> 0,
                    choiceText |-> "Go left"]],
      [type |-> "choice", sessionId |-> "s1", timestamp |-> 200,
       payload |-> [knotPath |-> KnotK, choiceIndex |-> 0,
                    choiceText |-> "Left"]],
      [type |-> "choice", sessionId |-> "s2", timestamp |-> 150,
       payload |-> [knotPath |-> KnotK, choiceIndex |-> 1,
                    choiceText |-> "Go right"]],
      [type |-> "choice", sessionId |-> "s2", timestamp |-> 50,
       payload |-> [knotPath |-> KnotColon, choiceIndex |-> 0]],
      [type |-> "choice", context |-> [knot |-> KnotA]],
      [type |-> "visit", sessionId |-> "s1", timestamp |-> 10] }

\* bodies of POST /events that are JSON objects but no valid event
MalformedEvents ==
    { EmptyDict,
      [type |-> "choice"],
      [sessionId |-> "s1"],
      [type |-> "", sessionId |-> "s1"] }

\* a request body as _read_body meets it: no content, bytes that are not
\* JSON, or a JSON object
NoBody == [kind |-> "empty"]

BadJson == [kind |-> "invalid"]

Json(v) == [kind |-> "json", value |-> v]

EventBodies == {NoBody, BadJson} \cup {Json(e) : e \in Events \cup MalformedEvents}

\* the value of "entries" in a batch: a JSON array, or a non-empty JSON
\* string (isinstance(entries, list) fails; it carries no items)
List(items) == [isList |-> TRUE, items |-> items]

NotAList == [isList |-> FALSE, items |-> <<>>]

BatchLists ==
    {List(<<>>)} \cup {List(<<e>>) : e \in Events}
    \cup {List(<<e, f>>) : e \in Events, f \in Events}

BatchBodies ==
    {NoBody, BadJson, Json(EmptyDict), Json([sessionId |-> "s1"]),
     Json([sessionId |-> "s1", entries |-> NotAList])}
    \cup {Json([sessionId |-> "s1", entries |-> l]) : l \in BatchLists}

\* requested choice identifiers
ChoiceIds ==
    { KnotK \o <<":", "0">>, KnotK \o <<":", "1">>, KnotK \o <<":", "2">>,
      KnotK, KnotColon \o <<":", "0">>, KnotColon, KnotA \o <<":", "-", "1">>,
      Unknown \o <<":", "-", "1">> }

ChoiceQueries ==
    {<<>>} \cup {<<c>> : c \in ChoiceIds}
    \cup {<<KnotK \o <<":", "0">>, c>> : c \in ChoiceIds}

\* the text of a limit parameter
LimitTexts == {str(n) : n \in -1..MaxLimit} \cup {<<"x">>}

LimitQueries == {EmptyDict} \cup {[limit |-> t] : t \in LimitTexts}

EventsQueries ==
    LimitQueries
    \cup {[limit |-> str(1), type |-> "choice"],
          [sessionId |-> "s1"],
          [type |-> "visit", sessionId |-> "s1"]}

-----------------------------------------------------------------------------
(* server.py: AnalyticsHandler *)

\* int(text) succeeds: an optional sign, then decimal digits
is_int_text(t) ==
    LET d == IF Len(t) > 0 /\ t[1] = "-" THEN Tail(t) ELSE t
    IN Len(d) > 0 /\ \A i \in 1..Len(d) : \E k \in 1..10 : Digits[k] = d[i]

RECURSIVE nat_of(_)
nat_of(d) ==
    IF Len(d) = 0 THEN 0
    ELSE 10 * nat_of(SubSeq(d, 1, Len(d) - 1))
         + ((CHOOSE k \in 1..10 : Digits[k] = d[Len(d)]) - 1)

\* int(text)
int_of(t) == IF t[1] = "-" THEN -nat_of(Tail(t)) ELSE nat_of(t)

\* _send_json(data, status) and _send_status(status)
send(code, data) == status' = code /\ response' = data

error(message) == [error |-> message]

\* truthiness of entry.get(key) for a string field
truthy(d, key) == key \in DOMAIN d /\ d[key] # ""

Init ==
    /\ db = <<>>
    /\ request = [method |-> "NONE", path |-> ""]
    /\ status = 0
    /\ response = EmptyDict
    /\ cleared = FALSE

\* lines 77-89
do_POST_events(body) ==
    /\ request' = [method |-> "POST", path |-> "/events", body |-> body]
    /\ IF body.kind = "invalid"
       THEN /\ send(400, error("Invalid JSON"))
            /\ UNCHANGED <<db, cleared>>
       ELSE IF \/ body.kind = "empty"
               \/ body.value = EmptyDict
               \/ ~truthy(body.value, "type")
               \/ ~truthy(body.value, "sessionId")
       THEN /\ send(400, error("Invalid event: requires type and sessionId"))
            /\ UNCHANGED <<db, cleared>>
       ELSE /\ Len(db) < MaxLog
            /\ db' = Append(db, body.value)
            /\ cleared' = FALSE
            /\ send(200, EmptyDict)

\* lines 92-106
do_POST_batch(body) ==
    /\ request' = [method |-> "POST", path |-> "/batch", body |-> body]
    /\ IF body.kind = "invalid"
       THEN /\ send(400, error("Invalid JSON"))
            /\ UNCHANGED <<db, cleared>>
       ELSE LET parsed == IF body.kind = "empty" THEN EmptyDict ELSE body.value
                has_list == /\ "entries" \in DOMAIN parsed
                            /\ parsed["entries"].isList
                            /\ parsed["entries"].items # <<>>
            IN IF ~has_list
               THEN /\ send(400, error("Invalid batch: requires entries array"))
                    /\ UNCHANGED <<db, cleared>>
               ELSE /\ Len(db) + Len(parsed["entries"].items) <= MaxLog
                    /\ db' = db \o parsed["entries"].items
                    /\ cleared' = FALSE
                    /\ send(200, EmptyDict)

\* line 109
do_POST_other ==
    /\ request' = [method |-> "POST", path |-> "/other"]
    /\ send(404, error("Not Found"))
    /\ UNCHANGED <<db, cleared>>

\* lines 125-127
do_GET_stats ==
    /\ request' = [method |-> "GET", path |-> "/stats"]
    /\ send(200, compute_path_stats(db))
    /\ UNCHANGED <<db, cleared>>

\* lines 131-141
do_GET_stats_choices(choice_ids) ==
    /\ request' = [method |-> "GET", path |-> "/stats/choices",
                   query |-> choice_ids]
    /\ IF choice_ids = <<>>
       THEN send(400, error("No choice IDs provided. Use ?choice=knot:0"))
       ELSE send(200, compute_choice_stats(db, choice_ids))
    /\ UNCHANGED <<db, cleared>>

\* lines 144-146
do_GET_sessions ==
    /\ request' = [method |-> "GET", path |-> "/sessions"]
    /\ send(200, compute_session_summaries(db))
    /\ UNCHANGED <<db, cleared>>

\* lines 149-152; a limit that is no integer raises ValueError (line 178)
do_GET_top_paths(query) ==
    /\ request' = [method |-> "GET", path |-> "/top-paths", query |-> query]
    /\ LET text == Get(query, "limit", str(10))
       IN IF is_int_text(text)
          THEN send(200, top_paths(db, int_of(text)))
          ELSE send(500, error("invalid literal for int()"))
    /\ UNCHANGED <<db, cleared>>

\* as do_GET_events, but the filters are applied to db itself
do_GET_events_in_place(query) ==
    /\ request' = [method |-> "GET", path |-> "/events", query |-> query]
    /\ LET text == Get(query, "limit", str(100))
           by_type == IF truthy(query, "type")
                      THEN SelectSeq(db, LAMBDA e :
                               "type" \in DOMAIN e /\ e["type"] = query["type"])
                      ELSE db
           filtered == IF truthy(query, "sessionId")
                       THEN SelectSeq(by_type, LAMBDA e :
                                "sessionId" \in DOMAIN e
                                /\ e["sessionId"] = query["sessionId"])
                       ELSE by_type
       IN /\ db' = filtered
          /\ IF is_int_text(text)
             THEN send(200, slice_last(filtered, int_of(text)))
             ELSE send(500, error("invalid literal for int()"))
    /\ UNCHANGED cleared

\* lines 155-168
do_GET_events(query) ==
    /\ request' = [method |-> "GET", path |-> "/events", query |-> query]
    /\ LET text == Get(query, "limit", str(100))
           by_type == IF truthy(query, "type")
                      THEN SelectSeq(db, LAMBDA e :
                               "type" \in DOMAIN e /\ e["type"] = query["type"])
                      ELSE db
           filtered == IF truthy(query, "sessionId")
                       THEN SelectSeq(by_type, LAMBDA e :
                                "sessionId" \in DOMAIN e
                                /\ e["sessionId"] = query["sessionId"])
                       ELSE by_type
       IN IF is_int_text(text)
          THEN send(200, slice_last(filtered, int_of(text)))
          ELSE send(500, error("invalid literal for int()"))
    /\ UNCHANGED <<db, cleared>>

\* lines 171-173
do_GET_health ==
    /\ request' = [method |-> "GET", path |-> "/health"]
    /\ send(200, [status |-> "ok", eventCount |-> Len(db)])
    /\ UNCHANGED <<db, cleared>>

\* line 176
do_GET_other ==
    /\ request' = [method |-> "GET", path |-> "/other"]
    /\ send(404, error("Not Found"))
    /\ UNCHANGED <<db, cleared>>

\* as do_DELETE_events, but db is rebound locally and the log stays
do_DELETE_events_rebinds ==
    /\ request' = [method |-> "DELETE", path |-> "/events"]
    /\ db' = db
    /\ cleared' = TRUE
    /\ send(200, EmptyDict)

\* lines 188-192
do_DELETE_events ==
    /\ request' = [method |-> "DELETE", path |-> "/events"]
    /\ db' = <<>>
    /\ cleared' = TRUE
    /\ send(200, EmptyDict)

\* line 195
do_DELETE_other ==
    /\ request' = [method |-> "DELETE", path |-> "/other"]
    /\ send(404, error("Not Found"))
    /\ UNCHANGED <<db, cleared>>

\* lines 66-68
do_OPTIONS ==
    /\ request' = [method |-> "OPTIONS", path |-> "/events"]
    /\ send(204, EmptyDict)
    /\ UNCHANGED <<db, cleared>>

Next ==
    \/ \E body \in EventBodies : do_POST_events(body)
    \/ \E body \in BatchBodies : do_POST_batch(body)
    \/ do_POST_other
    \/ do_GET_stats
    \/ \E choice_ids \in ChoiceQueries : do_GET_stats_choices(choice_ids)
    \/ do_GET_sessions
    \/ \E query \in LimitQueries : do_GET_top_paths(query)
    \/ \E query \in EventsQueries : do_GET_events(query)
    \/ do_GET_health
    \/ do_GET_other
    \/ do_DELETE_events
    \/ do_DELETE_other
    \/ do_OPTIONS

Spec == Init /\ [][Next]_vars

-----------------------------------------------------------------------------
(* What the claims speak of, stated on the log itself *)

ChoiceAt(entries) ==
    {i \in 1..Len(entries) :
        "type" \in DOMAIN entries[i] /\ entries[i]["type"] = "choice"}

SessionIdAt(entries, i) == Get(entries[i], "sessionId", "")

TimestampAt(entries, i) == Get(entries[i], "timestamp", 0)

PathAt(entries, i) == Get(payload_of(entries[i]), "knotPath", Unknown)

IndexAt(entries, i) == Get(payload_of(entries[i]), "choiceIndex", -1)

TextAt(entries, i) == Get(payload_of(entries[i]), "choiceText", "")

RECURSIVE SumOver(_, _)
SumOver(S, f) ==
    IF S = {} THEN 0
    ELSE LET x == CHOOSE x \in S : TRUE IN f[x] + SumOver(S \ {x}, f)

IsPrefix(s, t) == Len(s) <= Len(t) /\ s = SubSeq(t, 1, Len(s))

ZeroChoice == [total |-> 0, percentage |-> 0]

\* the choice entries that resolve to the identifier, and those on their knot
ResolvingTo(id) == {i \in ChoiceAt(db) : key_of(db[i]) = id}

OnKnotOf(id) ==
    {i \in ChoiceAt(db) : \E j \in ResolvingTo(id) : knot_of(db[i]) = knot_of(db[j])}

-----------------------------------------------------------------------------
(* C1: uniqueSessions is the number of distinct sessionId values over all  *)
(* entries of the log, choice or not, an absent sessionId counting as "".  *)
C1_UniqueSessionsOverAllEntries ==
    compute_path_stats(db).uniqueSessions
        = Cardinality({SessionIdAt(db, i) : i \in 1..Len(db)})

(* C2: for every requested identifier observed in the log, total is the    *)
(* number of choice entries resolving to it and percentage is              *)
(* round(total / T * 100) with T the number of choice entries on the same  *)
(* knot as those entries; no percentage exceeds 100.                       *)
C2_PercentageOfKnotTotal ==
    \A id \in ChoiceIds :
        ResolvingTo(id) # {} =>
            LET r == compute_choice_stats(db, <<id>>).choices[id]
            IN /\ r.total = Cardinality(ResolvingTo(id))
               /\ r.percentage = round_pct(Cardinality(ResolvingTo(id)),
                                           Cardinality(OnKnotOf(id)))
               /\ r.percentage <= 100

(* C3: totalChoices is the number of entries of type "choice", and the     *)
(* counts of all cells of pathDistribution add up to totalChoices.         *)
C3_TotalChoicesIsSumOfCells ==
    LET stats == compute_path_stats(db)
        dist == stats.pathDistribution
        cells == UNION {{<<p, k>> : k \in DOMAIN dist[p]} : p \in DOMAIN dist}
        count == [c \in cells |-> dist[c[1]][c[2]].count]
    IN /\ stats.totalChoices = Cardinality(ChoiceAt(db))
       /\ SumOver(cells, count) = stats.totalChoices

C3_Witness ==
    LET dist == compute_path_stats(db).pathDistribution
    IN /\ Len(db) = 3
       /\ Cardinality(ChoiceAt(db)) = 2
       /\ \E p \in DOMAIN dist : str(-1) \in DOMAIN dist[p]
       /\ \E p \in DOMAIN dist : str(0) \in DOMAIN dist[p]

PathsSeen == {PathAt(db, i) : i \in ChoiceAt(db)}

FirstSeen(path) ==
    CHOOSE i \in ChoiceAt(db) :
        /\ PathAt(db, i) = path
        /\ \A j \in ChoiceAt(db) : j < i => PathAt(db, j) # path

(* C4: for limits N <= M, topPaths(log, N) is the leading part of          *)
(* topPaths(log, M); a result lists each path with its count, in           *)
(* non-increasing order of count, ties in first-seen order of the path;    *)
(* a limit of at least the number of distinct paths returns all of them.   *)
C4_TopPathsPrefixSortedStable ==
    \A M \in 0..MaxLog :
        LET r == top_paths(db, M)
        IN /\ \A N \in 0..M : IsPrefix(top_paths(db, N), r)
           /\ \A i \in 1..Len(r) :
                 /\ r[i].path \in PathsSeen
                 /\ r[i].count =
                      Cardinality({k \in ChoiceAt(db) : PathAt(db, k) = r[i].path})
           /\ \A i, j \in 1..Len(r) :
                 i < j =>
                    \/ r[i].count > r[j].count
                    \/ /\ r[i].count = r[j].count
                       /\ FirstSeen(r[i].path) < FirstSeen(r[j].path)
           /\ M >= Cardinality(PathsSeen) =>
                 /\ Len(r) = Cardinality(PathsSeen)
                 /\ {r[i].path : i \in 1..Len(r)} = PathsSeen

\* GET /top-paths?limit=1 on a log of two paths, answered with the path
\* that was seen second and chosen twice
C4_Witness ==
    /\ request.method = "GET" /\ request.path = "/top-paths"
    /\ status = 200
    /\ Len(response) = 1
    /\ response[1].count = 2
    /\ response[1].path # PathAt(db, 1)
    /\ 1 \in ChoiceAt(db)
    /\ Cardinality(PathsSeen) = 2

EntriesOf(sid) == {i \in 1..Len(db) : SessionIdAt(db, i) = sid}

(* C5: sessionSummaries has exactly one record per distinct sessionId of   *)
(* the log, in order of first appearance, with startTime the minimum and   *)
(* endTime the maximum timestamp over all the session's entries,           *)
(* choiceCount its number of choice entries, and durationMs = endTime -    *)
(* startTime, never negative.                                              *)
C5_SessionSummaries ==
    LET out == compute_session_summaries(db)
        ids == {SessionIdAt(db, i) : i \in 1..Len(db)}
    IN /\ Len(out) = Cardinality(ids)
       /\ {out[k].sessionId : k \in 1..Len(out)} = ids
       /\ \A k, l \in 1..Len(out) :
             k < l => \E i \in EntriesOf(out[k].sessionId) :
                         \A j \in EntriesOf(out[l].sessionId) : i < j
       /\ \A k \in 1..Len(out) :
             LET mine == EntriesOf(out[k].sessionId)
             IN /\ \E i \in mine : out[k].startTime = TimestampAt(db, i)
                /\ \A i \in mine : out[k].startTime <= TimestampAt(db, i)
                /\ \E i \in mine : out[k].endTime = TimestampAt(db, i)
                /\ \A i \in mine : out[k].endTime >= TimestampAt(db, i)
                /\ out[k].choiceCount = Cardinality(mine \cap ChoiceAt(db))
                /\ out[k].durationMs = out[k].endTime - out[k].startTime
                /\ out[k].durationMs >= 0

\* GET /sessions answered for a log where a non-choice entry sets the start
\* of session s1 and a second session follows it
C5_Witness ==
    /\ request.method = "GET" /\ request.path = "/sessions"
    /\ Len(response) = 2
    /\ response[1].sessionId = "s1"
    /\ response[1].startTime = 10
    /\ response[1].endTime = 200
    /\ response[1].choiceCount = 1
    /\ response[1].durationMs = 190
    /\ ~(1 \in ChoiceAt(db))

ZeroStats ==
    [totalChoices |-> 0, uniqueSessions |-> 0, pathDistribution |-> EmptyDict]

(* C7: once DELETE /events has cleared the log and nothing was appended    *)
(* since, every aggregation gives the zero result of its shape, and so     *)
(* does every aggregation query served.                                    *)
C7_ClearedLogGivesZeroResults ==
    cleared =>
        /\ compute_path_stats(db) = ZeroStats
        /\ Len(compute_session_summaries(db)) = 0
        /\ \A limit \in 0..MaxLog : Len(top_paths(db, limit)) = 0
        /\ \A q \in ChoiceQueries : \A k \in 1..Len(q) :
              compute_choice_stats(db, q).choices[q[k]] = ZeroChoice
        /\ (request.method = "GET" /\ status = 200) =>
              /\ request.path = "/stats" => response = ZeroStats
              /\ request.path = "/sessions" => Len(response) = 0
              /\ request.path = "/top-paths" => Len(response) = 0
              /\ request.path = "/stats/choices" =>
                    \A id \in DOMAIN response.choices :
                        response.choices[id] = ZeroChoice

C7_Witness ==
    /\ cleared
    /\ request.method = "GET" /\ request.path = "/stats/choices"
    /\ status = 200
    /\ Len(request.query) = 2

\* one step of the server, as C8 allows it
C8_Step ==
    /\ request'.method \in {"GET", "OPTIONS"} => db' = db
    /\ request'.method = "POST" =>
          /\ IsPrefix(db, db')
          /\ status' # 200 => db' = db
    /\ ~IsPrefix(db, db') =>
          /\ request'.method = "DELETE" /\ request'.path = "/events"
          /\ db' = <<>>

(* C8: the log changes only by append or full clear: a query leaves it     *)
(* unchanged, a POST keeps every earlier record in place and adds records  *)
(* at the end only when it succeeds, and only DELETE /events removes       *)
(* records, all of them.                                                   *)
C8_LogOnlyAppendedOrCleared == [][C8_Step]_vars

\* a filtered GET /events served on a full log, which it leaves full
C8_Witness ==
    /\ request.method = "GET" /\ request.path = "/events"
    /\ status = 200
    /\ Len(db) = MaxLog
    /\ Len(response) > 0
    /\ Len(response) < Len(db)

(* C9: a requested identifier that no choice entry resolves to gets        *)
(* {total: 0, percentage: 0}; a requested string without a colon always    *)
(* does, whatever the log holds.                                           *)
C9_UnobservedIdIsZero ==
    \A q \in ChoiceQueries : \A k \in 1..Len(q) :
        (ResolvingTo(q[k]) = {} \/ ~has_colon(q[k])) =>
            compute_choice_stats(db, q).choices[q[k]] = ZeroChoice

\* GET /stats/choices?choice=k:0&choice=k on a log with choices on knot k
C9_Witness ==
    /\ request.method = "GET" /\ request.path = "/stats/choices"
    /\ status = 200
    /\ request.query = <<KnotK \o <<":", "0">>, KnotK>>
    /\ response.choices[KnotK \o <<":", "0">>].total = 2
    /\ response.choices[KnotK] = ZeroChoice

CellEntries(path, key) ==
    {i \in ChoiceAt(db) : PathAt(db, i) = path /\ str(IndexAt(db, i)) = key}

(* C10: the text of a pathDistribution cell is the choiceText of the first *)
(* choice entry of its (knotPath, choiceIndex) pair, "" if it has none;    *)
(* later entries of the pair raise the count and leave the text.           *)
C10_TextOfFirstEntry ==
    LET dist == compute_path_stats(db).pathDistribution
    IN /\ \A i \in ChoiceAt(db) :
             /\ PathAt(db, i) \in DOMAIN dist
             /\ str(IndexAt(db, i)) \in DOMAIN dist[PathAt(db, i)]
       /\ \A p \in DOMAIN dist : \A key \in DOMAIN dist[p] :
             LET hits == CellEntries(p, key)
             IN /\ hits # {}
                /\ \E i \in hits :
                      /\ \A j \in hits : i <= j
                      /\ dist[p][key].text = TextAt(db, i)
                /\ dist[p][key].count = Cardinality(hits)

\* GET /stats on a log whose cell (k, 0) was opened by "Left" and then
\* counted an entry whose text is "Go left"
C10_Witness ==
    /\ request.method = "GET" /\ request.path = "/stats"
    /\ KnotK \in DOMAIN response.pathDistribution
    /\ str(0) \in DOMAIN response.pathDistribution[KnotK]
    /\ response.pathDistribution[KnotK][str(0)] = [count |-> 2, text |-> "Left"]
    /\ \E i \in CellEntries(KnotK, str(0)) : TextAt(db, i) = "Go left"

\* a record, or the body of a submission, without a usable type or sessionId
LacksRequired(e) == ~truthy(e, "type") \/ ~truthy(e, "sessionId")

MalformedEvent(req) ==
    /\ req.method = "POST" /\ req.path = "/events"
    /\ req.body.kind = "json" => LacksRequired(req.body.value)

MalformedBatch(req) ==
    /\ req.method = "POST" /\ req.path = "/batch"
    /\ req.body.kind = "json" =>
          \/ "entries" \notin DOMAIN req.body.value
          \/ ~req.body.value["entries"].isList

\* one step of the server, as C6 allows it
C6_Step ==
    /\ (MalformedEvent(request') \/ MalformedBatch(request')) =>
          /\ status' = 400
          /\ db' = db
    /\ \A i \in 1..Len(db') : ~LacksRequired(db'[i])

(* C6: a malformed submission is rejected with a client error and leaves   *)
(* the log unchanged (POST /events without type or sessionId, POST /batch  *)
(* without a list of entries), so no record missing a required field is    *)
(* ever in the log.                                                        *)
C6_MalformedNeverReachesLog == [][C6_Step]_vars

=============================================================================
